---------------------------- MODULE Spec2Model ----------------------------
(***************************************************************************)
(* Model of the codebook-generation core of qvz (src/src/codebook.c):      *)
(* the bit allocator find_states, the conditional quantizer store and its  *)
(* accessors, calculate_statistics and the column loop of                  *)
(* generate_codebooks.                                                     *)
(*                                                                         *)
(* Numbers.  The C code works on doubles.  The model keeps exact values:   *)
(*   - an entropy (a value in the log domain) is a record                  *)
(*       [seg |-> m, pos |-> t]   standing for                             *)
(*       log2(m) + (t / Resolution) * (log2(m+1) - log2(m)),               *)
(*     with m >= 1 and 0 <= t < Resolution: every H >= 0 lies in exactly   *)
(*     one segment [log2 m, log2(m+1)), and the model samples Resolution   *)
(*     points of it, t = 0 being the integer logarithm itself;             *)
(*   - 2^H is then a record [int |-> m, frac |-> t]: the real number       *)
(*     m * ((m+1)/m)^(t/Resolution), an integer iff frac = 0 and strictly  *)
(*     between m and m+1 otherwise;                                        *)
(*   - a ratio is "nan", "inf", "undef" (computed from the result of an    *)
(*     out-of-range conversion) or an exact fraction num/den.              *)
(***************************************************************************)
EXTENDS Integers, Sequences, FiniteSets, TLC

VARIABLES
    entropy,    \* find_states: the argument `entropy`
    states,     \* find_states: the outputs *high, *low, *ratio (None before the call)
    info,       \* struct quality_file_t: columns and the training lines
    in_pmfs,    \* struct cond_pmf_list_t handed to generate_codebooks
    q_list,     \* struct cond_quantizer_list_t built by generate_codebooks
    pc,         \* position inside generate_codebooks
    column,     \* generate_codebooks: local `column`
    j,          \* generate_codebooks: local `j` of the design loop
    locals,     \* generate_codebooks: locals hi, lo, ratio, q_lo, q_hi
    q_output_union,         \* generate_codebooks: local of that name
    q_prev_output_union,    \* generate_codebooks: local of that name
    ndebug,     \* whether the build defines NDEBUG (assert compiled out)
    ret,        \* outcome of the last accessor call on q_list
    peer,       \* a second store (the decoder's), equal to q_list when built
    peer_ret,   \* outcome of the last choose_quantizer call on peer
    ncalls,     \* number of choose_quantizer calls made so far (mod WellPeriod)
    comp,       \* generate_codebooks: parameter `comp`
    file,       \* the codebook file: its lines, each a sequence of bytes
    cb_list,    \* struct codebook_list_t filled by read_codebook
    cli,        \* main: argv and the locals of the argument loop
    heap        \* the blocks passed to free so far, and the undefined accesses made

fsVars == <<entropy, states>>

genVars == <<info, in_pmfs, q_list, pc, column, j, locals, q_output_union, q_prev_output_union>>

useVars == <<ndebug, ret, peer, peer_ret, ncalls>>

extVars == <<comp, file, cb_list, cli, heap>>

vars == <<entropy, states, info, in_pmfs, q_list, pc, column, j, locals,
          q_output_union, q_prev_output_union, ndebug, ret, peer, peer_ret, ncalls,
          comp, file, cb_list, cli, heap>>

-----------------------------------------------------------------------------
(* Bounds of the model *)

\* entropies are sampled at Resolution points per segment
Resolution == 4

\* uint32_t is modelled as an unsigned word of UintBits bits (TLC's integers
\* are 32-bit signed, so the 32-bit word itself cannot be held): every
\* conversion, wrap-around and scaling below is that of the C code with
\* 2^32 replaced by 2^UintBits.
UintBits == 4

UINT32_MAX == 2^UintBits - 1

\* size of the symbol alphabet (41 in main.c; any size in codebook.c)
AlphabetSize == 2

\* number of columns of the training data in the generation runs
NumColumns == 3

\* number of columns in the runs that go on to use the store
StoreColumns == 2

\* at most this many training lines
MaxLines == 1

\* the training lines of the generation runs use the symbols below this
TrainSymbols == 1

\* the entropy targets met during generation lie in the segments
\* 1..MaxStates, at the first GenPositions sample points of each
MaxStates == 2
GenPositions == 2

\* period of the modelled generator
WellPeriod == 4

-----------------------------------------------------------------------------
(* Double arithmetic, exact on the sampled values *)

NaN == [kind |-> "nan"]
Inf == [kind |-> "inf"]
Undef == [kind |-> "undef"]

Frac(a, b) == [kind |-> "num", num |-> a, den |-> b]

One == Frac(1, 1)

\* pow(2.0, h) for a log-domain value h
Pow2(h) == [int |-> h.seg, frac |-> h.pos]

\* ceil(x) of a linear-domain value, as a double holding an integer
Ceil(x) == IF x.frac = 0 THEN x.int ELSE x.int + 1

\* The conversions (uint32_t) d of a double d holding the integer part n.
\* In range the conversion truncates.  Out of range it is undefined
\* behaviour: builds either wrap (x86-64: cvttsd2si, low 32 bits) or
\* saturate (AArch64: fcvtzu); `ub` selects which.
UBOutcomes == {"wrap", "saturate"}

\* the outcomes of converting the integer-valued double n: one in range
UBFor(n) == IF n <= UINT32_MAX THEN {"wrap"} ELSE UBOutcomes

ToUint32(n, ub) ==
    IF n <= UINT32_MAX THEN n
    ELSE IF ub = "wrap" THEN n % (UINT32_MAX + 1) ELSE UINT32_MAX

\* The position of a log-domain value v on the axis of segment m, in units
\* of (log2(m+1) - log2 m) / Resolution: <<t>> for a value of the segment
\* (log2(m+1) included), and Far for a value outside it (the difference to
\* it is then a real number the model does not represent).
Far == <<>>

Units(v, m) ==
    IF v.seg = m THEN <<v.pos>>
    ELSE IF v.seg = m + 1 /\ v.pos = 0 THEN <<Resolution>>
    ELSE Far

\* log2((double) n); log2(0) is -infinity, which no segment holds
Log2(n) == [seg |-> n, pos |-> 0]

\* a - b of two positions on the same axis
Sub(a, b) == IF a = Far \/ b = Far THEN Far ELSE <<a[1] - b[1]>>

\* a / b of two differences on the same axis, as IEEE 754 divides
Div(a, b) ==
    IF a = Far \/ b = Far THEN Undef
    ELSE IF b[1] = 0 THEN (IF a[1] = 0 THEN NaN ELSE Inf)
    ELSE IF b[1] < 0 THEN Frac(-a[1], -b[1])
    ELSE Frac(a[1], b[1])

\* 1 - r
OneMinus(r) ==
    IF r.kind = "num" THEN Frac(r.den - r.num, r.den) ELSE r

\* u/v >= r as C evaluates it: every comparison with NaN is false
GeqRatio(u, v, r) ==
    IF r.kind = "num" THEN u * r.den >= r.num * v
    ELSE IF r.kind = "inf" THEN FALSE
    ELSE FALSE

\* u/v < r as C evaluates it
LessRatio(u, v, r) ==
    IF r.kind = "num" THEN u * r.den < r.num * v
    ELSE IF r.kind = "inf" THEN TRUE
    ELSE FALSE

InUnitInterval(r) ==
    r.kind = "num" /\ 0 <= r.num /\ r.num <= r.den

IsOne(r) == r.kind = "num" /\ r.num = r.den

-----------------------------------------------------------------------------
(* find_states *)

\* rounds 2^H to the nearest integer where the code truncates
find_states_round(h, ub) ==
    LET h_pow == Pow2(h)
        low == ToUint32(IF 2 * h_pow.frac >= Resolution THEN h_pow.int + 1 ELSE h_pow.int, ub)
        high == ToUint32(Ceil(h_pow), ub)
        h_lo == Units(Log2(low), h.seg)
        h_hi == Units(Log2(high), h.seg)
    IN  [high |-> high, low |-> low,
         ratio |-> Div(Sub(Units(h, h.seg), h_hi), Sub(h_lo, h_hi))]

find_states(h, ub) ==
    LET h_pow == Pow2(h)
        low == ToUint32(h_pow.int, ub)
        high == ToUint32(Ceil(h_pow), ub)
        h_lo == Units(Log2(low), h.seg)
        h_hi == Units(Log2(high), h.seg)
    IN  [high |-> high, low |-> low,
         ratio |-> Div(Sub(Units(h, h.seg), h_hi), Sub(h_lo, h_hi))]

-----------------------------------------------------------------------------
(* Arrays are 0-based in the C code and are held as sequences: a[i] of the *)
(* code is At(a, i).                                                       *)

At(a, i) == a[i + 1]

Range(a) == {a[i] : i \in 1..Len(a)}

Symbols == 0..(AlphabetSize - 1)

\* no value yet (a local before its first assignment, a call not yet made)
None == [kind |-> "none"]

\* no accessor has been called yet
NoCall == [call |-> "none", kind |-> "none"]

\* a NULL pointer
Null == [kind |-> "null"]

\* a null pointer where an array is expected
NoArray == <<>>

Zero == Frac(0, 1)

-----------------------------------------------------------------------------
(* Alphabets: ordered symbol sequences (alphabet_t)                        *)

Min(S) == CHOOSE x \in S : \A y \in S : x <= y

RECURSIVE SortedSeq(_)
SortedSeq(S) == IF S = {} THEN <<>> ELSE <<Min(S)>> \o SortedSeq(S \ {Min(S)})

alloc_alphabet(n) == [i \in 1..n |-> i - 1]

duplicate_alphabet(a) == a

alphabet_union(a, b) == SortedSeq(Range(a) \cup Range(b))

ALPHABET_SYMBOL_NOT_FOUND == UINT32_MAX

get_symbol_index(a, s) ==
    IF \E i \in 1..Len(a) : a[i] = s
    THEN (CHOOSE i \in 1..Len(a) : a[i] = s) - 1
    ELSE ALPHABET_SYMBOL_NOT_FOUND

-----------------------------------------------------------------------------
(* The generator inside the store (struct well_state_t, well_1024a): a     *)
(* deterministic generator, advanced by one position per draw.             *)

well_1024a(well) ==
    [well |-> (well + 1) % WellPeriod,
     out |-> well * (UINT32_MAX \div (WellPeriod - 1))]

-----------------------------------------------------------------------------
(* The conditional quantizer store                                         *)

alloc_conditional_quantizer_list(columns) ==
    [columns |-> columns,
     input_alphabets |-> [c \in 1..columns |-> NoArray],
     q |-> [c \in 1..columns |-> NoArray],
     ratio |-> [c \in 1..columns |-> NoArray],
     well |-> 0]

cond_quantizer_init_column(list, col, input_union) ==
    [list EXCEPT
        !.input_alphabets[col + 1] = duplicate_alphabet(input_union),
        !.q[col + 1] = [i \in 1..(2 * Len(input_union)) |-> Null],
        !.ratio[col + 1] = [i \in 1..Len(input_union) |-> Zero]]

get_cond_quantizer_indexed(list, col, index) == At(At(list.q, col), index)

get_cond_quantizer(list, col, prev) ==
    LET idx == get_symbol_index(At(list.input_alphabets, col), prev)
    IN  IF idx # ALPHABET_SYMBOL_NOT_FOUND
        THEN get_cond_quantizer_indexed(list, col, idx)
        ELSE Null

\* advances the store's generator while storing
store_cond_quantizers_draw(lo, hi, list, col, prev) ==
    LET idx == get_symbol_index(At(list.input_alphabets, col), prev)
    IN  [list EXCEPT
            !.q[col + 1][2 * idx + 1] = lo,
            !.q[col + 1][2 * idx + 2] = hi,
            !.ratio[col + 1][idx + 1] = lo.ratio,
            !.well = well_1024a(list.well).well]

\* the pair of context idx put at the slots idx and idx + 1
store_cond_quantizers_packed(lo, hi, list, col, prev) ==
    LET idx == get_symbol_index(At(list.input_alphabets, col), prev)
    IN  [list EXCEPT
            !.q[col + 1][idx + 1] = lo,
            !.q[col + 1][idx + 2] = hi,
            !.ratio[col + 1][idx + 1] = lo.ratio]

\* only called with prev in the column's input alphabet
store_cond_quantizers(lo, hi, list, col, prev) ==
    LET idx == get_symbol_index(At(list.input_alphabets, col), prev)
    IN  [list EXCEPT
            !.q[col + 1][2 * idx + 1] = lo,
            !.q[col + 1][2 * idx + 2] = hi,
            !.ratio[col + 1][idx + 1] = lo.ratio]

\* draws a second time before returning the high quantizer
choose_quantizer_extra_draw(list, col, prev, nd) ==
    LET idx == get_symbol_index(At(list.input_alphabets, col), prev)
        draw == well_1024a(list.well)
        drawn == [list EXCEPT !.well = draw.well]
    IN  IF idx = ALPHABET_SYMBOL_NOT_FOUND
        THEN [list |-> list, ret |-> [kind |-> "abort"]]
        ELSE IF GeqRatio(draw.out, UINT32_MAX, At(At(list.ratio, col), idx))
             THEN [list |-> [list EXCEPT !.well = well_1024a(draw.well).well],
                   ret |-> [kind |-> "quantizer", slot |-> 2 * idx + 1, draw |-> draw.out,
                            quantizer |-> At(At(list.q, col), 2 * idx + 1)]]
             ELSE [list |-> drawn,
                   ret |-> [kind |-> "quantizer", slot |-> 2 * idx, draw |-> draw.out,
                            quantizer |-> At(At(list.q, col), 2 * idx)]]

\* The outcome of choose_quantizer and the store after the call.
\* With the symbol present: one draw, then the high slot when
\* draw / UINT32_MAX >= ratio and the low slot otherwise.
\* With the symbol absent: the assert aborts the process, or, compiled
\* out under NDEBUG, ratio[column][idx] and q[column][2*idx+1] are read
\* at the index made from ALPHABET_SYMBOL_NOT_FOUND (out of bounds).
choose_quantizer(list, col, prev, nd) ==
    LET idx == get_symbol_index(At(list.input_alphabets, col), prev)
        draw == well_1024a(list.well)
        drawn == [list EXCEPT !.well = draw.well]
    IN  IF idx = ALPHABET_SYMBOL_NOT_FOUND
        THEN IF nd
             THEN [list |-> drawn,
                   ret |-> [kind |-> "out_of_bounds", index |-> idx,
                            slot |-> (2 * idx + 1) % (UINT32_MAX + 1)]]
             ELSE [list |-> list, ret |-> [kind |-> "abort"]]
        ELSE IF GeqRatio(draw.out, UINT32_MAX, At(At(list.ratio, col), idx))
             THEN [list |-> drawn,
                   ret |-> [kind |-> "quantizer", slot |-> 2 * idx + 1, draw |-> draw.out,
                            quantizer |-> At(At(list.q, col), 2 * idx + 1)]]
             ELSE [list |-> drawn,
                   ret |-> [kind |-> "quantizer", slot |-> 2 * idx, draw |-> draw.out,
                            quantizer |-> At(At(list.q, col), 2 * idx)]]

-----------------------------------------------------------------------------
(* Exact fractions (probabilities)                                         *)

RECURSIVE Gcd(_, _)
Gcd(a, b) == IF b = 0 THEN a ELSE Gcd(b, a % b)

Norm(a, b) == IF a = 0 THEN Zero ELSE Frac(a \div Gcd(a, b), b \div Gcd(a, b))

RatAdd(x, y) == Norm(x.num * y.den + y.num * x.den, x.den * y.den)

RatMul(x, y) == Norm(x.num * y.num, x.den * y.den)

-----------------------------------------------------------------------------
(* The conditional PMF store and calculate_statistics.  A PMF (pmf_t) is   *)
(* held as its vector of counts; its probabilities are counts / total.     *)

RECURSIVE SumSeq(_)
SumSeq(a) == IF a = <<>> THEN 0 ELSE Head(a) + SumSeq(Tail(a))

alloc_pmf(alphabet) == [t \in 1..Len(alphabet) |-> 0]

\* count = 1 + alphabet->size*(columns-1), in uint32_t arithmetic
cond_pmf_count(alphabet, columns) ==
    (1 + Len(alphabet) * ((columns - 1) % (UINT32_MAX + 1))) % (UINT32_MAX + 1)

alloc_conditional_pmf_list(alphabet, columns) ==
    [columns |-> columns,
     alphabet |-> alphabet,
     pmfs |-> [i \in 1..cond_pmf_count(alphabet, columns) |-> alloc_pmf(alphabet)],
     marginal_pmfs |-> NoArray]

\* the index into pmfs that get_cond_pmf resolves (column, prev) to, in
\* uint32_t arithmetic
get_cond_pmf_slot(list, col, prev) ==
    IF col = 0 THEN 0
    ELSE (1 + (col - 1) * Len(list.alphabet) + prev) % (UINT32_MAX + 1)

get_cond_pmf(list, col, prev) == At(list.pmfs, get_cond_pmf_slot(list, col, prev))

\* get_probability of a PMF of counts; a PMF without mass contributes 0
get_probability(pmf, t) ==
    IF SumSeq(pmf) = 0 THEN Zero ELSE Norm(At(pmf, t), SumSeq(pmf))

pmf_increment(pmfs, slot, t) ==
    [pmfs EXCEPT ![slot + 1][t + 1] = @ + 1]

\* as count_line, the context taken from the column being counted
RECURSIVE count_line_same_column(_, _, _, _)
count_line_same_column(list, line, col, columns) ==
    IF col >= columns THEN list
    ELSE count_line_same_column(
            [list EXCEPT !.pmfs =
                pmf_increment(list.pmfs,
                              get_cond_pmf_slot(list, col, IF col = 0 THEN 0 ELSE At(line, col)),
                              At(line, col))],
            line, col + 1, columns)

\* lines 172-175: the increments one line makes, columns col..columns-1
RECURSIVE count_line(_, _, _, _)
count_line(list, line, col, columns) ==
    IF col >= columns THEN list
    ELSE count_line(
            [list EXCEPT !.pmfs =
                pmf_increment(list.pmfs,
                              get_cond_pmf_slot(list, col, IF col = 0 THEN 0 ELSE At(line, col - 1)),
                              At(line, col))],
            line, col + 1, columns)

\* lines 169-177: all lines
RECURSIVE count_lines(_, _, _)
count_lines(list, lines, columns) ==
    IF lines = <<>> THEN list
    ELSE count_lines(count_line(list, Head(lines), 0, columns), Tail(lines), columns)

\* as marginal_sum, without the weights marginal[col-1](n')
RECURSIVE marginal_sum_unweighted(_, _, _, _, _)
marginal_sum_unweighted(list, prev_marginal, col, t, n) ==
    IF n = 0 THEN Zero
    ELSE RatAdd(marginal_sum_unweighted(list, prev_marginal, col, t, n - 1),
                get_probability(get_cond_pmf(list, col, n - 1), t))

\* lines 183-185: marginal[col](t), the sum over the contexts 0..n-1 of
\* marginal[col-1](n') * cond_pmf(col, n')(t)
RECURSIVE marginal_sum(_, _, _, _, _)
marginal_sum(list, prev_marginal, col, t, n) ==
    IF n = 0 THEN Zero
    ELSE RatAdd(marginal_sum(list, prev_marginal, col, t, n - 1),
                RatMul(At(prev_marginal, n - 1),
                       get_probability(get_cond_pmf(list, col, n - 1), t)))

\* lines 180-186: the marginals of the columns 0..col
RECURSIVE marginals(_, _)
marginals(list, col) ==
    IF col = 0
    THEN <<[t \in 1..Len(list.alphabet) |-> get_probability(get_cond_pmf(list, 0, 0), t - 1)]>>
    ELSE LET before == marginals(list, col - 1)
         IN  Append(before,
                    [t \in 1..Len(list.alphabet) |->
                        marginal_sum(list, At(before, col - 1), col, t - 1, Len(list.alphabet))])

calculate_statistics(inf, pmf_list) ==
    LET counted == count_lines(pmf_list, inf.lines, inf.columns)
    IN  [counted EXCEPT !.marginal_pmfs = marginals(counted, inf.columns - 1)]

-----------------------------------------------------------------------------
(* The quantizer designer (generate_quantizer).  The PMF it is given is    *)
(* abstracted to a design table d: d[M] is the map the designer returns    *)
(* for that PMF and M states.  A table belongs to a support S: for         *)
(* M >= |S| the map is the identity on S (symbols outside S go to the      *)
(* nearest symbol of S, the smaller one on a tie), and for M < |S| it is   *)
(* a monotone map onto at most M reproduction symbols inside the hull of   *)
(* S, each of them a fixed point.                                          *)

Maps == [1..AlphabetSize -> Symbols]

Image(m) == {m[x] : x \in 1..AlphabetSize}

Abs(x) == IF x < 0 THEN -x ELSE x

Nearest(S, x) ==
    CHOOSE r \in S : \A r2 \in S :
        Abs(r - x) < Abs(r2 - x) \/ (Abs(r - x) = Abs(r2 - x) /\ r <= r2)

IdentityOn(S) == [x \in 1..AlphabetSize |-> IF (x - 1) \in S THEN x - 1 ELSE Nearest(S, x - 1)]

Max(S) == CHOOSE x \in S : \A y \in S : x >= y

CellMaps(S, M) ==
    {m \in Maps :
        /\ Cardinality(Image(m)) <= M
        /\ \A x \in 1..(AlphabetSize - 1) : m[x] <= m[x + 1]
        /\ \A r \in Image(m) : m[r + 1] = r /\ Min(S) <= r /\ r <= Max(S)}

DesignTables ==
    {d \in [1..AlphabetSize -> Maps] :
        \E S \in (SUBSET Symbols) \ {{}} :
            \A M \in 1..AlphabetSize :
                IF M >= Cardinality(S) THEN d[M] = IdentityOn(S) ELSE d[M] \in CellMaps(S, M)}

\* generate_quantizer(pmf, dist, states, &mse, ratio); more states than
\* symbols design as AlphabetSize states do
generate_quantizer(d, nstates, ratio) ==
    LET m == d[IF nstates > AlphabetSize THEN AlphabetSize ELSE nstates]
    IN  [q |-> m, output_alphabet |-> SortedSeq(Image(m)), ratio |-> ratio]

-----------------------------------------------------------------------------
(* generate_codebooks                                                      *)

\* lines 473-476: the union of the output alphabets of the slots 0..n-1
\* of column col-1, slot 0 first
RECURSIVE union_of_slots(_, _, _)
union_of_slots(list, col, n) ==
    IF n = 1
    THEN duplicate_alphabet(get_cond_quantizer_indexed(list, col - 1, 0).output_alphabet)
    ELSE alphabet_union(union_of_slots(list, col, n - 1),
                        get_cond_quantizer_indexed(list, col - 1, n - 1).output_alphabet)

prev_union_from_outputs(list, union) == union_of_slots(list, 1, 2)

\* line 462: q_prev_output_union = q_output_union, the alphabet column 0 was
\* initialised with at line 445
prev_union_after_column0(list, union) == union

output_union_low_only(list, col, prev_union) ==
    union_of_slots(list, col, Len(prev_union))

\* the loop runs j = 1 .. 2*q_prev_output_union->size - 1
output_union(list, col, prev_union) ==
    union_of_slots(list, col, 2 * Len(prev_union))

\* pmf_increment on the unconditional PMF, as calculate_statistics does
pmfs_counted_again(pmf_list) ==
    [pmf_list EXCEPT !.pmfs = pmf_increment(pmf_list.pmfs, 0, 0)]

\* lines 483-490 and 498-500: compute_qpmf_quan_list, compute_qpmf_list,
\* compute_xpmf_list and the designs read in_pmfs through get_cond_pmf,
\* get_probability and get_entropy and write only qpmf_list and
\* xpmf_list, which are their own allocations: in_pmfs afterwards
pmfs_after_propagation(pmf_list) == pmf_list

\* the entropy targets get_entropy(...) * comp the runs meet
GenEntropies ==
    {h \in [seg : 1..MaxStates, pos : 0..(Resolution - 1)] : h.pos < GenPositions}

\* lines 454-458 and 498-501: find_states, the two designs, the store
design_and_store(list, col, q_symbol, h, d, ub) ==
    LET st == find_states(h, ub)
        q_lo == generate_quantizer(d, st.low, st.ratio)
        q_hi == generate_quantizer(d, st.high, OneMinus(st.ratio))
    IN  [list |-> store_cond_quantizers(q_lo, q_hi, list, col, q_symbol),
         locals |-> [hi |-> st.high, lo |-> st.low, ratio |-> st.ratio,
                     q_lo |-> q_lo, q_hi |-> q_hi]]

\* lines 419 and 442
GenEnter ==
    /\ pc = "entry"
    /\ q_list' = alloc_conditional_quantizer_list(info.columns)
    /\ in_pmfs' = calculate_statistics(info, in_pmfs)
    /\ pc' = "column0"
    /\ UNCHANGED <<info, column, j, locals, q_output_union, q_prev_output_union>>
    /\ UNCHANGED <<fsVars, useVars, extVars>>

\* lines 446-466
GenColumn0 ==
    /\ pc = "column0"
    /\ \E h \in GenEntropies, d \in DesignTables :
       \E ub \in UBFor(Ceil(Pow2(h))) :
         LET opened == cond_quantizer_init_column(q_list, 0, alloc_alphabet(1))
             done == design_and_store(opened, 0, 0, h, d, ub)
         IN  /\ q_list' = done.list
             /\ locals' = done.locals
    /\ q_output_union' = alloc_alphabet(1)
    /\ q_prev_output_union' = prev_union_after_column0(q_list', q_output_union')
    /\ column' = 1
    /\ pc' = "loop"
    /\ UNCHANGED <<info, in_pmfs, j>>
    /\ UNCHANGED <<fsVars, useVars, extVars>>

\* lines 470-490
GenOpenColumn ==
    /\ pc = "loop"
    /\ column < info.columns
    /\ q_output_union' = output_union(q_list, column, q_prev_output_union)
    /\ q_list' = cond_quantizer_init_column(q_list, column, q_output_union')
    /\ in_pmfs' = pmfs_after_propagation(in_pmfs)
    /\ j' = 0
    /\ pc' = "design"
    /\ UNCHANGED <<info, column, locals, q_prev_output_union>>
    /\ UNCHANGED <<fsVars, useVars, extVars>>

\* lines 493-502, one iteration
GenDesign ==
    /\ pc = "design"
    /\ j < Len(q_output_union)
    /\ \E h \in GenEntropies, d \in DesignTables :
       \E ub \in UBFor(Ceil(Pow2(h))) :
         LET done == design_and_store(q_list, column, At(q_output_union, j), h, d, ub)
         IN  /\ q_list' = done.list
             /\ locals' = done.locals
    /\ j' = j + 1
    /\ UNCHANGED <<info, in_pmfs, pc, column, q_output_union, q_prev_output_union>>
    /\ UNCHANGED <<fsVars, useVars, extVars>>

\* lines 504-513
GenAdvance ==
    /\ pc = "design"
    /\ j >= Len(q_output_union)
    /\ q_prev_output_union' = q_output_union
    /\ column' = column + 1
    /\ pc' = "loop"
    /\ UNCHANGED <<info, in_pmfs, q_list, j, locals, q_output_union>>
    /\ UNCHANGED <<fsVars, useVars, extVars>>

\* lines 515-520; the decoder's store starts as a copy of the result
GenReturn ==
    /\ pc = "loop"
    /\ column >= info.columns
    /\ pc' = "done"
    /\ peer' = q_list
    /\ UNCHANGED <<info, in_pmfs, q_list, column, j, locals, q_output_union, q_prev_output_union>>
    /\ UNCHANGED <<fsVars, extVars, ndebug, ret, peer_ret, ncalls>>

\* the training lines: MaxLines lines at most, `columns` symbols each,
\* over the symbols 0..nsym-1
Corpora(columns, nsym) ==
    UNION {[1..n -> [1..columns -> 0..(nsym - 1)]] : n \in 1..MaxLines}

\* nothing written, read or parsed yet
\* nothing freed and no undefined access made
NoFrees == [freed |-> <<>>, undefined |-> <<>>]

ExtIdle == file = Null /\ cb_list = Null /\ cli = Null /\ heap = NoFrees

InitGenFor(columns) ==
    /\ info \in {[columns |-> columns, lines |-> ls] : ls \in Corpora(columns, TrainSymbols)}
    /\ in_pmfs = alloc_conditional_pmf_list(alloc_alphabet(AlphabetSize), info.columns)
    /\ q_list = Null
    /\ pc = "entry"
    /\ column = 0
    /\ j = 0
    /\ locals = None
    /\ q_output_union = Null
    /\ q_prev_output_union = Null
    /\ entropy = [seg |-> 1, pos |-> 0]
    /\ states = None
    /\ ret = NoCall
    /\ peer = Null
    /\ peer_ret = NoCall
    /\ ncalls = 0

\* the entropy targets of these runs are drawn from GenEntropies, so comp
\* is not read
InitGen == InitGenFor(NumColumns) /\ ndebug = FALSE /\ comp = One /\ ExtIdle

NextGen ==
    \/ GenEnter
    \/ GenColumn0
    \/ GenOpenColumn
    \/ GenDesign
    \/ GenAdvance
    \/ GenReturn

SpecGen == InitGen /\ [][NextGen]_vars

-----------------------------------------------------------------------------
(* Use of the finished store: the accessors, called by the encoder and the *)
(* decoder once generate_codebooks has returned.                           *)

InitStore == InitGenFor(StoreColumns) /\ ndebug \in BOOLEAN /\ comp = One /\ ExtIdle

\* get_cond_quantizer(q_list, c, s)
GetCond ==
    /\ pc = "done"
    /\ ret.kind # "abort"
    /\ \E c \in 0..(q_list.columns - 1), s \in Symbols :
         ret' = [call |-> "get", column |-> c, prev |-> s,
                 kind |-> IF get_cond_quantizer(q_list, c, s) = Null
                          THEN "null" ELSE "quantizer",
                 quantizer |-> get_cond_quantizer(q_list, c, s)]
    /\ UNCHANGED <<fsVars, extVars, genVars, ndebug, peer, peer_ret, ncalls>>

\* choose_quantizer(q_list, c, s)
Choose ==
    /\ pc = "done"
    /\ ret.kind # "abort"
    /\ \E c \in 0..(q_list.columns - 1), s \in Symbols :
         LET call == choose_quantizer(q_list, c, s, ndebug)
         IN  /\ q_list' = call.list
             /\ ret' = [call |-> "choose", column |-> c, prev |-> s] @@ call.ret
    /\ ncalls' = (ncalls + 1) % WellPeriod
    /\ UNCHANGED <<fsVars, extVars, info, in_pmfs, pc, column, j, locals, q_output_union,
                   q_prev_output_union, ndebug, peer, peer_ret>>

NextStore ==
    \/ NextGen
    \/ GetCond
    \/ Choose

SpecStore == InitStore /\ [][NextStore]_vars

\* The encoder and the decoder make the same call, each on its own store,
\* with a context symbol of the column's input alphabet.
ChooseBoth ==
    /\ pc = "done"
    /\ \E c \in 0..(q_list.columns - 1) :
       \E s \in Range(At(q_list.input_alphabets, c)) :
         LET call == choose_quantizer(q_list, c, s, ndebug)
             peer_call == choose_quantizer(peer, c, s, ndebug)
         IN  /\ q_list' = call.list
             /\ ret' = [call |-> "choose", column |-> c, prev |-> s] @@ call.ret
             /\ peer' = peer_call.list
             /\ peer_ret' = [call |-> "choose", column |-> c, prev |-> s] @@ peer_call.ret
    /\ ncalls' = (ncalls + 1) % WellPeriod
    /\ UNCHANGED <<fsVars, extVars, info, in_pmfs, pc, column, j, locals, q_output_union,
                   q_prev_output_union, ndebug>>

NextPair ==
    \/ NextGen
    \/ ChooseBoth

SpecPair == InitStore /\ [][NextPair]_vars

-----------------------------------------------------------------------------
(* Specification of find_states alone: the entropy is drawn, then the      *)
(* function is applied.                                                    *)

\* every segment whose power fits the word, and the first two that do not
Segments == 1..(UINT32_MAX + 2)

Entropies == [seg : Segments, pos : 0..(Resolution - 1)]

InitStates ==
    /\ entropy \in Entropies
    /\ states = None
    /\ info = None
    /\ in_pmfs = Null
    /\ q_list = Null
    /\ pc = "find_states"
    /\ column = 0
    /\ j = 0
    /\ locals = None
    /\ q_output_union = Null
    /\ q_prev_output_union = Null
    /\ ndebug = FALSE
    /\ ret = NoCall
    /\ peer = Null
    /\ peer_ret = NoCall
    /\ ncalls = 0
    /\ comp = One
    /\ ExtIdle

FindStates ==
    /\ states = None
    /\ \E ub \in UBFor(Ceil(Pow2(entropy))) : states' = find_states(entropy, ub)
    /\ UNCHANGED <<entropy, genVars, useVars, extVars>>

NextStates == FindStates

SpecStates == InitStates /\ [][NextStates]_vars

-----------------------------------------------------------------------------
(* Column 0 of generate_codebooks with its entropy computed from the       *)
(* training lines.  The runs are those whose column-0 probabilities are    *)
(* powers of 1/2, so that the entropy is a fraction, and whose target      *)
(* entropy * comp is a sample point of the first segment or an integer.    *)

\* the alphabet and the training lines of the end-to-end scenarios
ScenarioSymbols == 4

ScenarioColumns == 3

S3Corpus == <<<<0, 0, 0>>, <<0, 1, 0>>, <<1, 1, 2>>, <<3, 2, 1>>>>

\* at most this many training lines, each one of the scenario's lines
ScenarioLines == 4

ScenarioCorpora ==
    UNION {[1..n -> Range(S3Corpus)] : n \in 1..ScenarioLines}

\* the values of comp tried
Comps == {Zero, Frac(1, 4), Frac(1, 2), One}

IsPow2(n) == \E k \in 0..n : 2^k = n

Log2Exact(n) == CHOOSE k \in 0..n : 2^k = n

Dyadic(pmf) ==
    \A t \in DOMAIN pmf :
        IF pmf[t] = 0 THEN TRUE
        ELSE SumSeq(pmf) % pmf[t] = 0 /\ IsPow2(SumSeq(pmf) \div pmf[t])

\* the sum of -p log2 p over the symbols 0..n-1 of a PMF of counts
RECURSIVE entropy_sum(_, _)
entropy_sum(pmf, n) ==
    IF n = 0 THEN Zero
    ELSE RatAdd(entropy_sum(pmf, n - 1),
                IF At(pmf, n - 1) = 0 THEN Zero
                ELSE RatMul(get_probability(pmf, n - 1),
                            Frac(Log2Exact(SumSeq(pmf) \div At(pmf, n - 1)), 1)))

\* get_entropy of a PMF whose probabilities are powers of 1/2
get_entropy(pmf) == entropy_sum(pmf, Len(pmf))

\* get_entropy(...) * comp
entropy_target_comp_only(h, c) == c

entropy_target(h, c) == RatMul(h, c)

\* whether a fraction of bits is a point of the grid of entropies
OnGrid(x) ==
    IF x.den = 1 THEN TRUE
    ELSE x.num < x.den /\ (x.num * Resolution) % x.den = 0

\* the point of the grid of entropies a fraction of bits is
EntropyPoint(x) ==
    IF x.den = 1 THEN [seg |-> 2^x.num, pos |-> 0]
    ELSE [seg |-> 1, pos |-> (x.num * Resolution) \div x.den]

\* the symbols a PMF of counts gives mass to
Support(pmf) == {t \in 0..(Len(pmf) - 1) : At(pmf, t) > 0}

MapsOver(n) == [1..n -> 0..(n - 1)]

ImageOf(m) == {m[x] : x \in DOMAIN m}

\* the maps generate_quantizer can return for a PMF of support S over n
\* symbols and M states: the identity on S when M >= |S| (symbols outside
\* S go to the nearest symbol of S), else a monotone map onto at most M
\* reproduction symbols inside the hull of S, each of them a fixed point
DesignsFor(n, S, M) ==
    IF M >= Cardinality(S)
    THEN {[x \in 1..n |-> IF (x - 1) \in S THEN x - 1 ELSE Nearest(S, x - 1)]}
    ELSE {m \in MapsOver(n) :
            /\ Cardinality(ImageOf(m)) <= M
            /\ \A x \in 1..(n - 1) : m[x] <= m[x + 1]
            /\ \A r \in ImageOf(m) : m[r + 1] = r /\ Min(S) <= r /\ r <= Max(S)}

\* generate_quantizer(pmf, dist, states, &mse, ratio): the quantizers it
\* can return
generate_quantizer_on(pmf, nstates, ratio) ==
    {[q |-> m, output_alphabet |-> SortedSeq(ImageOf(m)), ratio |-> ratio] :
        m \in DesignsFor(Len(pmf), Support(pmf),
                         IF nstates > Len(pmf) THEN Len(pmf) ELSE nstates)}

\* lines 446-466, the entropy being that of the column-0 PMF
GenColumn0Exact ==
    /\ pc = "column0"
    /\ LET pmf == get_cond_pmf(in_pmfs, 0, 0)
           h == EntropyPoint(entropy_target(get_entropy(pmf), comp))
           st == find_states(h, "wrap")
           opened == cond_quantizer_init_column(q_list, 0, alloc_alphabet(1))
       IN  /\ entropy' = h
           /\ \E q_lo \in generate_quantizer_on(pmf, st.low, st.ratio),
                 q_hi \in generate_quantizer_on(pmf, st.high, OneMinus(st.ratio)) :
                /\ q_list' = store_cond_quantizers(q_lo, q_hi, opened, 0, 0)
                /\ locals' = [hi |-> st.high, lo |-> st.low, ratio |-> st.ratio,
                              q_lo |-> q_lo, q_hi |-> q_hi]
    /\ q_output_union' = alloc_alphabet(1)
    /\ q_prev_output_union' = prev_union_after_column0(q_list', q_output_union')
    /\ column' = 1
    /\ pc' = "loop"
    /\ UNCHANGED <<info, in_pmfs, j, states, comp, file, cb_list, cli, heap>>
    /\ UNCHANGED useVars

InitScenario ==
    /\ info \in {[columns |-> ScenarioColumns, lines |-> ls] : ls \in ScenarioCorpora}
    /\ comp \in Comps
    /\ LET counted == calculate_statistics(
                          info, alloc_conditional_pmf_list(alloc_alphabet(ScenarioSymbols),
                                                           info.columns))
           pmf == get_cond_pmf(counted, 0, 0)
       IN  /\ Dyadic(pmf)
           /\ OnGrid(entropy_target(get_entropy(pmf), comp))
           /\ Ceil(Pow2(EntropyPoint(entropy_target(get_entropy(pmf), comp)))) <= UINT32_MAX
    /\ in_pmfs = alloc_conditional_pmf_list(alloc_alphabet(ScenarioSymbols), info.columns)
    /\ q_list = Null
    /\ pc = "entry"
    /\ column = 0
    /\ j = 0
    /\ locals = None
    /\ q_output_union = Null
    /\ q_prev_output_union = Null
    /\ entropy = [seg |-> 1, pos |-> 0]
    /\ states = None
    /\ ndebug = FALSE
    /\ ret = NoCall
    /\ peer = Null
    /\ peer_ret = NoCall
    /\ ncalls = 0
    /\ ExtIdle

NextScenario ==
    \/ GenEnter
    \/ GenColumn0Exact

SpecScenario == InitScenario /\ [][NextScenario]_vars

-----------------------------------------------------------------------------
(* calculate_statistics alone, over every small training set               *)

\* the training sets have at most StatLines lines of at most StatColumns
\* columns
StatLines == 3

StatColumns == 3

StatCorpora(columns) ==
    UNION {[1..n -> [1..columns -> Symbols]] : n \in 0..StatLines}

InitStats ==
    /\ info \in UNION {{[columns |-> c, lines |-> ls] : ls \in StatCorpora(c)} :
                          c \in 1..StatColumns}
    /\ in_pmfs = alloc_conditional_pmf_list(alloc_alphabet(AlphabetSize), info.columns)
    /\ q_list = Null
    /\ pc = "statistics"
    /\ column = 0
    /\ j = 0
    /\ locals = None
    /\ q_output_union = Null
    /\ q_prev_output_union = Null
    /\ entropy = [seg |-> 1, pos |-> 0]
    /\ states = None
    /\ ndebug = FALSE
    /\ ret = NoCall
    /\ peer = Null
    /\ peer_ret = NoCall
    /\ ncalls = 0
    /\ comp = One
    /\ ExtIdle

\* calculate_statistics(info, in_pmfs)
CalculateStatistics ==
    /\ pc = "statistics"
    /\ in_pmfs' = calculate_statistics(info, in_pmfs)
    /\ pc' = "counted"
    /\ UNCHANGED <<info, q_list, column, j, locals, q_output_union, q_prev_output_union>>
    /\ UNCHANGED <<fsVars, useVars, extVars>>

NextStats == CalculateStatistics

SpecStats == InitStats /\ [][NextStats]_vars

-----------------------------------------------------------------------------
(* Sizing the conditional PMF store and resolving (column, prev) in it     *)

\* the stores are sized for at most AllocColumns columns over at most
\* AllocSymbols symbols; 1 + AllocSymbols * (AllocColumns - 1) exceeds
\* UINT32_MAX
AllocColumns == 6

AllocSymbols == 4

\* no training line, or one line of the symbol 0
AllocCorpora(columns) == {<<>>, <<[c \in 1..columns |-> 0]>>}

InitAlloc ==
    /\ info \in UNION {{[columns |-> c, lines |-> ls, alphabet |-> alloc_alphabet(a)] :
                          ls \in AllocCorpora(c), a \in 1..AllocSymbols} :
                       c \in 0..AllocColumns}
    /\ in_pmfs = Null
    /\ q_list = Null
    /\ pc = "alloc"
    /\ column = 0
    /\ j = 0
    /\ locals = None
    /\ q_output_union = Null
    /\ q_prev_output_union = Null
    /\ entropy = [seg |-> 1, pos |-> 0]
    /\ states = None
    /\ ndebug = FALSE
    /\ ret = NoCall
    /\ peer = Null
    /\ peer_ret = NoCall
    /\ ncalls = 0
    /\ comp = One
    /\ ExtIdle

\* alloc_conditional_pmf_list(info.alphabet, info.columns)
AllocPmfList ==
    /\ pc = "alloc"
    /\ in_pmfs' = alloc_conditional_pmf_list(info.alphabet, info.columns)
    /\ pc' = "allocated"
    /\ UNCHANGED <<info, q_list, column, j, locals, q_output_union, q_prev_output_union>>
    /\ UNCHANGED <<fsVars, useVars, extVars>>

\* get_cond_pmf(in_pmfs, c, s); the index it reads pmfs at is recorded, and
\* whether the array has it
GetCondPmf ==
    /\ pc = "allocated"
    /\ \E c \in 0..(info.columns - 1), s \in Range(info.alphabet) :
         LET slot == get_cond_pmf_slot(in_pmfs, c, s)
         IN  ret' = [call |-> "get_cond_pmf", column |-> c, prev |-> s, slot |-> slot,
                     kind |-> IF slot < Len(in_pmfs.pmfs) THEN "pmf" ELSE "out_of_bounds"]
    /\ UNCHANGED <<genVars, fsVars, extVars, ndebug, peer, peer_ret, ncalls>>

NextAlloc ==
    \/ AllocPmfList
    \/ GetCondPmf

SpecAlloc == InitAlloc /\ [][NextAlloc]_vars

-----------------------------------------------------------------------------
(* write_codebook and read_codebook.  The file is the sequence of its      *)
(* lines, each the sequence of its bytes without the newline.              *)

\* memset(empty, 32, ...): the ASCII space
Space == 32

\* the offset added to every symbol and ratio written
ByteOffset == 33

\* a char holds a byte
ByteRange == 256

\* the ratio is written in hundredths
RatioScale == 100

empty(n) == [k \in 1..n |-> Space]

\* (uint8_t)(ratio*100) of a double that is not a number is undefined:
\* the conversion gives 0 or all ones
RatioUBOutcomes == {"zero", "ones"}

RatioUBFor(list) ==
    IF \A c \in 1..list.columns : list.ratio[c][1].kind = "num"
    THEN {"zero"} ELSE RatioUBOutcomes

\* line 754: ((uint8_t)(ratio*100)) + 33, stored in a char
ratio_byte(r, ub) ==
    LET percent == IF r.kind = "num" THEN ((r.num * RatioScale) \div r.den) % ByteRange
                   ELSE IF ub = "zero" THEN 0 ELSE ByteRange - 1
    IN  (percent + ByteOffset) % ByteRange

\* COPY_Q_TO_LINE: line[i] = q[i] + 33
q_to_line(q) == [k \in 1..Len(q) |-> (q[k] + ByteOffset) % ByteRange]

\* lines 772-783: the blocks of the contexts j..size-1 of column i
RECURSIVE column_line(_, _, _, _)
column_line(quantizers, i, jj, size) ==
    IF jj >= size THEN <<>>
    ELSE LET q_temp == get_cond_quantizer(quantizers, i, jj)
         IN  (IF q_temp # Null THEN q_to_line(q_temp.q) ELSE empty(size))
               \o column_line(quantizers, i, jj + 1, size)

\* lines 770-786: the two lines of each of the columns i..columns-1
RECURSIVE column_lines(_, _, _)
column_lines(quantizers, i, size) ==
    IF i >= quantizers.columns THEN <<>>
    ELSE <<column_line(quantizers, i, 0, size), column_line(quantizers, i, 0, size)>>
           \o column_lines(quantizers, i + 1, size)

write_codebook(quantizers, ub) ==
    LET columns == quantizers.columns
        q_temp == get_cond_quantizer_indexed(quantizers, 0, 0)
        size == Len(q_temp.q)
    IN  <<empty(columns),
          empty(columns),
          [i \in 1..columns |-> ratio_byte(At(At(quantizers.ratio, i - 1), 0), ub)],
          q_to_line(q_temp.q),
          q_to_line(q_temp.q)>>
          \o column_lines(quantizers, 1, size)

\* lines 903-911: the values of the quantizer that differ from the one
\* before them, in order, in an array of zeros
RECURSIVE uniques_of(_)
uniques_of(quantizer) ==
    IF Len(quantizer) = 1 THEN quantizer
    ELSE LET before == uniques_of(SubSeq(quantizer, 1, Len(quantizer) - 1))
         IN  IF quantizer[Len(quantizer)] # before[Len(before)]
             THEN Append(before, quantizer[Len(quantizer)])
             ELSE before

generate_uniques(quantizer) ==
    [quantizer |-> quantizer,
     uniques |-> uniques_of(quantizer)
                   \o [k \in 1..(Len(quantizer) - Len(uniques_of(quantizer))) |-> 0],
     actual_unique_count |-> Len(uniques_of(quantizer)),
     symbols |-> Len(quantizer)]

\* memcpy(cb->quantizer, &line[j*symbols], symbols) and generate_uniques
codebook_from(line, jj, symbols) ==
    generate_uniques(SubSeq(line, jj * symbols + 1, (jj + 1) * symbols))

\* lines 825-845: one of low and high, from the lines 4, 6, ... or 5, 7, ...
codebook_array(lines, first, symbols, columns) ==
    [c \in 1..columns |->
        IF c = 1 THEN <<codebook_from(lines[first], 0, symbols)>>
        ELSE [s \in 1..symbols |-> codebook_from(lines[first + 2 * (c - 1)], s - 1, symbols)]]

read_codebook(lines, symbols) ==
    LET columns == Len(lines[1])
    IN  [columns |-> columns,
         symbols |-> symbols,
         ratio |-> [jj \in 1..columns |-> (lines[3][jj] - ByteOffset) % ByteRange],
         low |-> codebook_array(lines, 4, symbols, columns),
         high |-> codebook_array(lines, 5, symbols, columns),
         select_count |-> [jj \in 1..columns |-> 0],
         well |-> 0]

InitCodebook == InitGenFor(StoreColumns) /\ ndebug = FALSE /\ comp = One /\ ExtIdle

\* write_codebook(filename, q_list) on the finished store
WriteCodebook ==
    /\ pc = "done"
    /\ file = Null
    /\ \E ub \in RatioUBFor(q_list) : file' = write_codebook(q_list, ub)
    /\ UNCHANGED <<genVars, fsVars, useVars, comp, cb_list, cli, heap>>

\* read_codebook(filename, &cb_list, symbols) on the file written, symbols
\* being the size of the quantizers' alphabet
ReadCodebook ==
    /\ file # Null
    /\ cb_list = Null
    /\ cb_list' = read_codebook(file, Len(get_cond_quantizer_indexed(q_list, 0, 0).q))
    /\ UNCHANGED <<genVars, fsVars, useVars, comp, file, cli, heap>>

NextCodebook ==
    \/ NextGen
    \/ WriteCodebook
    \/ ReadCodebook

SpecCodebook == InitCodebook /\ [][NextCodebook]_vars

-----------------------------------------------------------------------------
(* The command-line parser of main.  cli holds main's locals; an argument  *)
(* is named by its position in argv, and its characters are drawn when the *)
(* loop reads them (each argument is read by one iteration only).          *)

\* the largest argc, program name included
MaxArgc == 5

\* a null char pointer; a value of opts that no argument has set yet
NullName == 0

\* argv[i][1] of the options of the switch at line 217
FlagOptions == {"x", "q", "v", "s"}

ValueOptions == {"f", "r", "c", "t", "u", "T"}

\* a letter that is no option and no distortion
OtherLetter == "z"

OptionLetters == FlagOptions \cup ValueOptions \cup {"h", "d", OtherLetter}

\* argv[i][0] of an argument: '-' or the first letter of a name
FirstChars == {"-", "M", "L", "A", OtherLetter}

\* the first two characters of an argument
Arguments == [first : FirstChars, second : OptionLetters]

\* opts as main sets it at lines 183-190; mode is left unset
DefaultOpts ==
    [training_size |-> NullName, verbose |-> 0, stats |-> 0, ratio |-> NullName,
     clusters |-> NullName, uncompressed |-> 0, uncompressed_name |-> NullName,
     distortion |-> "DISTORTION_MSE", cluster_threshold |-> NullName,
     mode |-> "unset"]

\* line 291: the test that prints "Missing required filenames."
filenames_taken_first_only(file_idx) == file_idx = 0

filenames_missing(file_idx) == file_idx # 2

\* what use of a null argv[i+1] can give: the process dies or goes on
NullArgOutcomes == {"crash", "continue"}

\* main's locals after line 194; input_name, output_name and the values of
\* opts are the positions in argv they were taken from.  untagged lists
\* the positions the loop took as untagged arguments, and last is the
\* option the loop handled last with the argv[i+1][0] it read.
InitCli ==
    /\ cli \in {[argc |-> n, i |-> 1, file_idx |-> 0, input_name |-> NullName,
                 output_name |-> NullName, extract |-> 0, opts |-> DefaultOpts,
                 untagged |-> <<>>, last |-> None] : n \in 1..MaxArgc}
    /\ pc = "main"
    /\ entropy = [seg |-> 1, pos |-> 0]
    /\ states = None
    /\ info = None
    /\ in_pmfs = Null
    /\ q_list = Null
    /\ column = 0
    /\ j = 0
    /\ locals = None
    /\ q_output_union = Null
    /\ q_prev_output_union = Null
    /\ ndebug = FALSE
    /\ ret = NoCall
    /\ peer = Null
    /\ peer_ret = NoCall
    /\ ncalls = 0
    /\ comp = One
    /\ file = Null
    /\ cb_list = Null
    /\ heap = NoFrees

CliIdle == UNCHANGED <<fsVars, info, in_pmfs, q_list, column, j, locals,
                       q_output_union, q_prev_output_union, useVars, comp, file, cb_list,
                       heap>>

\* the loop is at an argument
InLoop == pc = "main" /\ cli.i < cli.argc

Handled(letter, first) == [opt |-> letter, first |-> first]

\* lines 197-214, cases 0 and 1: argv[i] does not start with '-'
CliFileName ==
    /\ InLoop
    /\ \E arg \in Arguments : arg.first # "-"
    /\ cli.file_idx \in {0, 1}
    /\ cli' = [cli EXCEPT
                 !.input_name = IF cli.file_idx = 0 THEN cli.i ELSE @,
                 !.output_name = IF cli.file_idx = 1 THEN cli.i ELSE @,
                 !.file_idx = @ + 1,
                 !.untagged = Append(@, cli.i),
                 !.i = @ + 1]
    /\ UNCHANGED pc
    /\ CliIdle

\* lines 207-210: an untagged argument after the two file names
CliGarbage ==
    /\ InLoop
    /\ \E arg \in Arguments : arg.first # "-"
    /\ cli.file_idx \notin {0, 1}
    /\ cli' = [cli EXCEPT !.untagged = Append(@, cli.i)]
    /\ pc' = "exit1"
    /\ CliIdle

\* lines 218-225, 243-246, 250-253: -x, -q, -v, -s
CliFlag ==
    /\ InLoop
    /\ \E arg \in Arguments, letter \in FlagOptions :
         /\ arg.first = "-" /\ arg.second = letter
         /\ cli' = [cli EXCEPT
                   !.extract = IF letter = "x" THEN 1 ELSE IF letter = "q" THEN 0 ELSE @,
                   !.opts.verbose = IF letter = "v" THEN 1 ELSE @,
                   !.opts.stats = IF letter = "s" THEN 1 ELSE @,
                   !.last = Handled(letter, "none"),
                   !.i = @ + 1]
    /\ UNCHANGED pc
    /\ CliIdle

\* the locals after an option that takes argv[i+1] as its value
with_value(c, letter) ==
    [c EXCEPT
       !.extract = IF letter \in {"f", "r"} THEN 0 ELSE @,
       !.opts.ratio = IF letter \in {"f", "r"} THEN c.i + 1 ELSE @,
       !.opts.mode = IF letter = "f" THEN "MODE_RATIO"
                     ELSE IF letter = "r" THEN "MODE_FIXED" ELSE @,
       !.opts.clusters = IF letter = "c" THEN c.i + 1 ELSE @,
       !.opts.training_size = IF letter = "t" THEN c.i + 1 ELSE @,
       !.opts.cluster_threshold = IF letter = "T" THEN c.i + 1 ELSE @,
       !.opts.uncompressed = IF letter = "u" THEN 1 ELSE @,
       !.opts.uncompressed_name =
           IF letter = "u" THEN (IF c.i + 1 < c.argc THEN c.i + 1 ELSE NullName) ELSE @,
       !.last = Handled(letter, "none"),
       !.i = @ + 2]

\* lines 226-242, 254-266: -f, -r, -c, -t, -u, -T.  atof and atoi of the
\* null argv[argc] are undefined; -u only stores the pointer
CliValue ==
    /\ InLoop
    /\ \E arg \in Arguments, letter \in ValueOptions :
         /\ arg.first = "-" /\ arg.second = letter
         /\ \E outcome \in (IF cli.i + 1 < cli.argc \/ letter = "u"
                         THEN {"continue"} ELSE NullArgOutcomes) :
            IF outcome = "crash"
            THEN /\ cli' = [cli EXCEPT !.last = Handled(letter, "null")]
                 /\ pc' = "crash"
            ELSE /\ cli' = with_value(cli, letter)
                 /\ UNCHANGED pc
    /\ CliIdle

\* lines 247-249: -h
CliHelp ==
    /\ InLoop
    /\ \E arg \in Arguments : arg.first = "-" /\ arg.second = "h"
    /\ cli' = [cli EXCEPT !.last = Handled("h", "none")]
    /\ pc' = "exit0"
    /\ CliIdle

\* lines 268-281: the switch on argv[i+1][0]
distortion_after(distortion, first) ==
    IF first = "M" THEN "DISTORTION_MSE"
    ELSE IF first = "L" THEN "DISTORTION_LORENTZ"
    ELSE IF first = "A" THEN "DISTORTION_MANHATTAN"
    ELSE distortion

\* lines 267-283: -d.  Reading argv[argc][0] dereferences a null pointer:
\* the process dies or the switch runs on whatever was read
CliDistortion ==
    /\ InLoop
    /\ \E arg \in Arguments : arg.first = "-" /\ arg.second = "d"
    /\ IF cli.i + 1 < cli.argc
       THEN /\ \E next \in Arguments :
                 cli' = [cli EXCEPT
                           !.opts.distortion = distortion_after(@, next.first),
                           !.last = Handled("d", next.first),
                           !.i = @ + 2]
            /\ UNCHANGED pc
       ELSE \E outcome \in NullArgOutcomes :
              IF outcome = "crash"
              THEN /\ cli' = [cli EXCEPT !.last = Handled("d", "null")]
                   /\ pc' = "crash"
              ELSE /\ \E first \in FirstChars :
                        cli' = [cli EXCEPT
                                  !.opts.distortion = distortion_after(@, first),
                                  !.last = Handled("d", "null"),
                                  !.i = @ + 2]
                   /\ UNCHANGED pc
    /\ CliIdle

\* lines 284-287: any other character after the '-'
CliUnrecognized ==
    /\ InLoop
    /\ \E arg \in Arguments :
         /\ arg.first = "-"
         /\ arg.second \notin FlagOptions \cup ValueOptions \cup {"h", "d"}
         /\ cli' = [cli EXCEPT !.last = Handled(arg.second, "none")]
    /\ pc' = "exit1"
    /\ CliIdle

\* lines 291-295: the arguments are exhausted without two file names
CliMissing ==
    /\ pc = "main"
    /\ cli.i >= cli.argc
    /\ filenames_missing(cli.file_idx)
    /\ pc' = "exit1"
    /\ UNCHANGED cli
    /\ CliIdle

\* lines 315-320: decode or encode is called
CliStart ==
    /\ pc = "main"
    /\ cli.i >= cli.argc
    /\ ~filenames_missing(cli.file_idx)
    /\ pc' = IF cli.extract # 0 THEN "decode" ELSE "encode"
    /\ UNCHANGED cli
    /\ CliIdle

NextCli ==
    \/ CliFileName
    \/ CliGarbage
    \/ CliFlag
    \/ CliValue
    \/ CliHelp
    \/ CliDistortion
    \/ CliUnrecognized
    \/ CliMissing
    \/ CliStart

SpecCli == InitCli /\ [][NextCli]_vars

-----------------------------------------------------------------------------
(* compute_qpmf_quan_list and compute_qpmf_list: P(Q_i | X_i).  A row of a *)
(* pmf_list_t is held as its vector of doubles pmf[]; the doubles are      *)
(* exact fractions, and a value computed from a ratio that is not a number *)
(* is not followed further (Undef).                                        *)

\* the training sets of these runs: QpmfLines lines of QpmfColumns columns
QpmfLines == 2

QpmfColumns == 3

QpmfCorpora == [1..QpmfLines -> {<<0, 0, 0>>, <<0, 1, 1>>, <<1, 1, 0>>}]

\* x + y and x * y of doubles
DAdd(x, y) == IF x.kind = "num" /\ y.kind = "num" THEN RatAdd(x, y) ELSE Undef

DMul(x, y) == IF x.kind = "num" /\ y.kind = "num" THEN RatMul(x, y) ELSE Undef

\* get_probability of a row that holds probabilities
get_row_probability(row, t) == At(row, t)

\* lines 308-312: the addends for one cell
quan_cell(q_lo, q_hi, ratio, x, q_symbol) ==
    DAdd(IF At(q_lo.q, x) = q_symbol THEN ratio ELSE Zero,
         IF At(q_hi.q, x) = q_symbol THEN OneMinus(ratio) ELSE Zero)

\* compute_qpmf_quan_list on rows of zeros: the rows of q_x_pmf
compute_qpmf_quan_list(q_lo, q_hi, ratio, union) ==
    [x \in 1..Len(q_lo.q) |->
        [idx \in 1..Len(union) |-> quan_cell(q_lo, q_hi, ratio, x - 1, At(union, idx - 1))]]

\* lines 359-362: the sum over x = 0..n-1 added to the cell for context jj
RECURSIVE qpmf_weight(_, _, _, _, _, _)
qpmf_weight(pmf_list, col, prev_qpmf_list, k, jj, n) ==
    IF n = 0 THEN Zero
    ELSE DAdd(qpmf_weight(pmf_list, col, prev_qpmf_list, k, jj, n - 1),
              DMul(DMul(get_row_probability(At(prev_qpmf_list, n - 1), jj),
                        get_probability(get_cond_pmf(pmf_list, col - 1, n - 1), k)),
                   get_row_probability(At(pmf_list.marginal_pmfs, col - 2), n - 1)))

\* lines 345-356: what the j-th pair adds to p_q_xq
qpmf_pair(list, col, jj, k, q_symbol) ==
    LET q_lo == get_cond_quantizer_indexed(list, col - 1, 2 * jj)
        q_hi == get_cond_quantizer_indexed(list, col - 1, (2 * jj) + 1)
    IN  DAdd(IF At(q_lo.q, k) = q_symbol THEN q_lo.ratio ELSE Zero,
             IF At(q_hi.q, k) = q_symbol THEN q_hi.ratio ELSE Zero)

\* lines 340-365: the cell pmfs[k]->pmf[idx] and p_q_xq after the passes
\* j = 0..n-1 of the loop over prev_q_alphabet_union; p_q_xq is set to 0
\* before the loop only, and every pass multiplies the whole cell by it
RECURSIVE qpmf_cell(_, _, _, _, _, _, _)
qpmf_cell(pmf_list, col, prev_qpmf_list, list, k, q_symbol, n) ==
    IF n = 0 THEN [pmf |-> Zero, p_q_xq |-> Zero]
    ELSE LET before == qpmf_cell(pmf_list, col, prev_qpmf_list, list, k, q_symbol, n - 1)
             p == DAdd(before.p_q_xq, qpmf_pair(list, col, n - 1, k, q_symbol))
         IN  [pmf |-> DMul(DAdd(before.pmf,
                                qpmf_weight(pmf_list, col, prev_qpmf_list, k, n - 1,
                                            Len(prev_qpmf_list))), p),
              p_q_xq |-> p]

RECURSIVE DSumSeq(_)
DSumSeq(a) == IF a = <<>> THEN Zero ELSE DAdd(Head(a), DSumSeq(Tail(a)))

\* renormalize_pmf: divides by the total mass, and fails on no mass
renormalize_pmf(row) ==
    LET total == DSumSeq(row)
    IN  IF total.kind # "num" THEN [error |-> "none", pmf |-> [t \in 1..Len(row) |-> Undef]]
        ELSE IF total.num = 0 THEN [error |-> "EmptyDistribution", pmf |-> row]
        ELSE [error |-> "none",
              pmf |-> [t \in 1..Len(row) |->
                          DMul(row[t], Frac(total.den, total.num))]]

\* compute_qpmf_list: the rows before line 370 (raw) and after it
compute_qpmf_list(pmf_list, col, prev_qpmf_list, union, prev_union, list) ==
    LET raw == [k \in 1..Len(pmf_list.alphabet) |->
                   [idx \in 1..Len(union) |->
                       qpmf_cell(pmf_list, col, prev_qpmf_list, list, k - 1,
                                 At(union, idx - 1), Len(prev_union)).pmf]]
    IN  [raw |-> raw,
         rows |-> [k \in 1..Len(raw) |-> renormalize_pmf(raw[k])]]

\* the state of generate_codebooks at line 486 for column = 2: column 0 and
\* column 1 designed and stored, column 2 opened, prev_qpmf_list the rows
\* compute_qpmf_quan_list gave for column 1
QpmfStates ==
    [h0 : GenEntropies, d0 : DesignTables, h1 : GenEntropies,
     d1 : [Symbols -> DesignTables]]

\* lines 470-486 for column 2, column 1 being stored
qpmf_open2(pmf_list, done0, union1, list1) ==
    [in_pmfs |-> pmf_list,
     q_list |-> cond_quantizer_init_column(list1, 2, output_union(list1, 2, union1)),
     q_output_union |-> output_union(list1, 2, union1),
     q_prev_output_union |-> union1,
     prev_qpmf_list |-> compute_qpmf_quan_list(done0.locals.q_lo, done0.locals.q_hi,
                                               done0.locals.ratio, union1)]

\* lines 493-502 for column 1: a pair for each symbol of its input alphabet
RECURSIVE qpmf_design1(_, _, _, _)
qpmf_design1(opened1, union1, s, n) ==
    IF n = 0 THEN opened1
    ELSE design_and_store(qpmf_design1(opened1, union1, s, n - 1), 1, At(union1, n - 1),
                          s.h1, s.d1[At(union1, n - 1)], "wrap").list

\* lines 470-502 for column 1, column 0 being stored
qpmf_open1(pmf_list, done0, union1, s) ==
    qpmf_open2(pmf_list, done0, union1,
               qpmf_design1(cond_quantizer_init_column(done0.list, 1, union1), union1, s,
                            Len(union1)))

qpmf_column0(pmf_list, done0, s) ==
    qpmf_open1(pmf_list, done0, output_union(done0.list, 1, alloc_alphabet(1)), s)

qpmf_state(inf, s) ==
    qpmf_column0(
        calculate_statistics(inf,
            alloc_conditional_pmf_list(alloc_alphabet(AlphabetSize), inf.columns)),
        design_and_store(
            cond_quantizer_init_column(alloc_conditional_quantizer_list(inf.columns), 0,
                                       alloc_alphabet(1)),
            0, 0, s.h0, s.d0, "wrap"),
        s)

InitQpmf ==
    /\ info \in {[columns |-> QpmfColumns, lines |-> ls] : ls \in QpmfCorpora}
    /\ \E s \in QpmfStates :
         LET at == qpmf_state(info, s)
         IN  /\ in_pmfs = at.in_pmfs
             /\ q_list = at.q_list
             /\ q_output_union = at.q_output_union
             /\ q_prev_output_union = at.q_prev_output_union
             /\ locals = [prev_qpmf_list |-> at.prev_qpmf_list, qpmf_list |-> Null]
    /\ pc = "qpmf"
    /\ column = 2
    /\ j = 0
    /\ entropy = [seg |-> 1, pos |-> 0]
    /\ states = None
    /\ ndebug = FALSE
    /\ ret = NoCall
    /\ peer = Null
    /\ peer_ret = NoCall
    /\ ncalls = 0
    /\ comp = One
    /\ ExtIdle

\* line 486: compute_qpmf_list(qpmf_list, in_pmfs, column, prev_qpmf_list,
\* q_output_union, q_prev_output_union, q_list)
ComputeQpmfList ==
    /\ pc = "qpmf"
    /\ locals' = [locals EXCEPT !.qpmf_list =
                     compute_qpmf_list(in_pmfs, column, locals.prev_qpmf_list,
                                       q_output_union, q_prev_output_union, q_list)]
    /\ pc' = "qpmf_done"
    /\ UNCHANGED <<info, in_pmfs, q_list, column, j, q_output_union, q_prev_output_union>>
    /\ UNCHANGED <<fsVars, useVars, extVars>>

NextQpmf == ComputeQpmfList

SpecQpmf == InitQpmf /\ [][NextQpmf]_vars

-----------------------------------------------------------------------------
(* free_cond_quantizer_list and free_conditional_pmf_list, one action per  *)
(* pass of their loops.  heap.freed lists the blocks passed to free, in    *)
(* order; heap.undefined lists the accesses with undefined behaviour.      *)
(* locals holds the locals i, j and count of the function running.         *)

\* a block of the heap: the quantizer q[c][k], the array q[c], ratio[c] or
\* the alphabet input_alphabets[c] of a column, the PMF pmfs[k], or one of
\* the blocks of the list itself (c = k = 0)
HeapBlock(obj, c, k) == [obj |-> obj, column |-> c, index |-> k]

free(h, block) == [h EXCEPT !.freed = Append(@, block)]

undefined_access(h, what, index) ==
    [h EXCEPT !.undefined = Append(@, [access |-> what, index |-> index])]

\* what an out-of-bounds or dangling read can give: the process dies, or
\* it goes on with a value that is not the program's
GarbageOutcomes == {"crash", "garbage"}

InitFree == InitGenFor(StoreColumns) /\ ndebug = FALSE /\ comp = One /\ ExtIdle

FreeIdle == UNCHANGED <<fsVars, info, in_pmfs, q_list, column, j, q_output_union,
                        q_prev_output_union, useVars, comp, file, cb_list, cli>>

\* line 66: free_cond_quantizer_list(q_list) is entered
FreeQuantizerListEnter ==
    /\ pc = "done"
    /\ pc' = "free_columns"
    /\ locals' = [i |-> 0, j |-> 0]
    /\ UNCHANGED heap
    /\ FreeIdle

\* lines 68-69 and 79-82: the test of the outer loop, then either the test
\* of list->q[i] or the four frees after the loop
FreeQuantizerListColumn ==
    /\ pc = "free_columns"
    /\ IF locals.i < q_list.columns
       THEN IF At(q_list.q, locals.i) # NoArray
            THEN /\ pc' = "free_slots"
                 /\ locals' = [locals EXCEPT !.j = 0]
                 /\ UNCHANGED heap
            ELSE /\ locals' = [locals EXCEPT !.i = @ + 1]
                 /\ UNCHANGED <<pc, heap>>
       ELSE /\ heap' = free(free(free(free(heap, HeapBlock("ratio_array", 0, 0)),
                                      HeapBlock("q_array", 0, 0)),
                                 HeapBlock("input_alphabets", 0, 0)),
                            HeapBlock("list", 0, 0))
            /\ pc' = "freed"
            /\ UNCHANGED locals
    /\ FreeIdle

\* lines 70-76: the test j < list->input_alphabets[i]->size and one pass of
\* the inner loop, whose increment is ++i; or, the test failing, the three
\* frees of the column and the ++i of the outer loop
FreeQuantizerListSlot ==
    /\ pc = "free_slots"
    /\ IF locals.i >= q_list.columns
       THEN \E outcome \in GarbageOutcomes :
              /\ heap' = undefined_access(heap, "input_alphabets", locals.i)
              /\ pc' = IF outcome = "crash" THEN "free_crashed" ELSE "free_undefined"
              /\ UNCHANGED locals
       ELSE IF At(q_list.input_alphabets, locals.i) = NoArray
       THEN /\ heap' = undefined_access(heap, "null_alphabet", locals.i)
            /\ pc' = "free_crashed"
            /\ UNCHANGED locals
       ELSE IF locals.j < Len(At(q_list.input_alphabets, locals.i))
       THEN /\ heap' = IF get_cond_quantizer_indexed(q_list, locals.i, locals.j) # Null
                       THEN free(heap, HeapBlock("quantizer", locals.i, locals.j))
                       ELSE heap
            /\ locals' = [locals EXCEPT !.i = @ + 1]
            /\ UNCHANGED pc
       ELSE /\ heap' = free(free(free(heap, HeapBlock("alphabet", locals.i, 0)),
                                 HeapBlock("q", locals.i, 0)),
                            HeapBlock("ratio", locals.i, 0))
            /\ locals' = [locals EXCEPT !.i = @ + 1]
            /\ pc' = "free_columns"
    /\ FreeIdle

\* lines 36-37: free_conditional_pmf_list(in_pmfs) is entered
FreePmfListEnter ==
    /\ pc = "done"
    /\ pc' = "free_pmfs"
    /\ locals' = [i |-> 0, count |-> cond_pmf_count(in_pmfs.alphabet, in_pmfs.columns)]
    /\ UNCHANGED heap
    /\ FreeIdle

\* a block is passed to free that was freed before
freed_before(h, block) == \E n \in 1..Len(h.freed) : h.freed[n] = block

\* line 40: free_pmf(list->pmfs[0]) in every pass
pmf_freed_in_pass(i) == 0

\* what freeing a freed block can give: the allocator aborts, or goes on
DoubleFreeOutcomes == {"abort", "continue"}

\* lines 39-41: one pass of the loop
FreePmfListPass ==
    /\ pc = "free_pmfs"
    /\ locals.i < locals.count
    /\ LET block == HeapBlock("pmf", 0, pmf_freed_in_pass(locals.i))
       IN  IF freed_before(heap, block)
           THEN \E outcome \in DoubleFreeOutcomes :
                  /\ heap' = undefined_access(free(heap, block), "double_free", locals.i)
                  /\ pc' = IF outcome = "abort" THEN "free_crashed" ELSE pc
                  /\ locals' = IF outcome = "abort" THEN locals
                               ELSE [locals EXCEPT !.i = @ + 1]
           ELSE /\ heap' = free(heap, block)
                /\ locals' = [locals EXCEPT !.i = @ + 1]
                /\ UNCHANGED pc
    /\ FreeIdle

\* lines 42-44: free(list), then free_pmf_list(list->marginal_pmfs), which
\* reads the freed list
FreePmfListEnd ==
    /\ pc = "free_pmfs"
    /\ locals.i >= locals.count
    /\ \E outcome \in GarbageOutcomes :
         /\ heap' = LET read == undefined_access(free(heap, HeapBlock("pmf_list", 0, 0)),
                                                 "read_after_free", 0)
                    IN  IF outcome = "crash" THEN read
                        ELSE free(read, HeapBlock("marginal_pmfs", 0, 0))
         /\ pc' = IF outcome = "crash" THEN "free_crashed" ELSE "pmfs_freed"
    /\ UNCHANGED locals
    /\ FreeIdle

NextFree ==
    \/ NextGen
    \/ FreeQuantizerListEnter
    \/ FreeQuantizerListColumn
    \/ FreeQuantizerListSlot
    \/ FreePmfListEnter
    \/ FreePmfListPass
    \/ FreePmfListEnd

SpecFree == InitFree /\ [][NextFree]_vars

-----------------------------------------------------------------------------
(* Properties                                                              *)

\* the columns of q_list opened so far
Opened == IF q_list = Null THEN {}
          ELSE {c \in 0..(q_list.columns - 1) : At(q_list.input_alphabets, c) # NoArray}

InputAlphabet(c) == At(q_list.input_alphabets, c)

\* the slots of column c
Slots(c) == 0..(Len(At(q_list.q, c)) - 1)

Slot(c, k) == At(At(q_list.q, c), k)

StoredRatio(c, i) == At(At(q_list.ratio, c), i)

\* every context of column c has its two quantizers
Closed(c) == c \in Opened /\ \A k \in Slots(c) : Slot(c, k) # Null

\* C1: in every state of generate_codebooks, input_alphabet[0] is the one
\* symbol 0 and, for every opened column c >= 1, column c-1 holds
\* 2*|input_alphabet[c-1]| quantizers and input_alphabet[c] is exactly the
\* union of their output alphabets.
C1_InputAlphabetIsUnion ==
    \A c \in Opened :
        IF c = 0
        THEN InputAlphabet(0) = <<0>>
        ELSE /\ Closed(c - 1)
             /\ Cardinality(Slots(c - 1)) = 2 * Len(InputAlphabet(c - 1))
             /\ Range(InputAlphabet(c)) =
                    UNION {Range(Slot(c - 1, k).output_alphabet) : k \in Slots(c - 1)}

\* generation has returned, column 1 has two contexts, and the low
\* quantizer of its first context alone does not give column 2's alphabet
C1_Witness ==
    /\ pc = "done"
    /\ Opened = 0..2
    /\ Len(InputAlphabet(1)) = 2
    /\ Len(InputAlphabet(2)) = 2
    /\ Len(Slot(1, 0).output_alphabet) = 1
    /\ Len(Slot(1, 1).output_alphabet) = 1

\* C2: get_cond_quantizer(list, c, s), for s in input_alphabet[c] of a
\* finished store, returns one of the two quantizers stored under s.
C2_GetReturnsStoredPair ==
    (/\ ret.call = "get"
     /\ ret.prev \in Range(InputAlphabet(ret.column)))
    => LET idx == get_symbol_index(InputAlphabet(ret.column), ret.prev)
       IN  ret.quantizer \in {Slot(ret.column, 2 * idx), Slot(ret.column, 2 * idx + 1)}

\* C3: choose_quantizer(list, c, s), for s in input_alphabet[c], returns
\* the low quantizer of s when draw / UINT32_MAX < ratio[c][s] and the
\* high quantizer of s otherwise.
C3_ChooseByStrictLess ==
    (ret.call = "choose" /\ ret.kind = "quantizer")
    => LET idx == get_symbol_index(InputAlphabet(ret.column), ret.prev)
       IN  IF LessRatio(ret.draw, UINT32_MAX, StoredRatio(ret.column, idx))
           THEN ret.slot = 2 * idx
           ELSE ret.slot = 2 * idx + 1

\* C4: choose_quantizer with a symbol outside input_alphabet[column]
\* ends in an error: no quantizer is returned and nothing is read at an
\* index made from the not-found sentinel.
C4_MissSurfacesError ==
    (/\ ret.call = "choose"
     /\ ret.prev \notin Range(InputAlphabet(ret.column)))
    => ret.kind = "abort"

\* C5: after any number of calls made alike on two equal stores, the two
\* made the same selection, their generators are in the same state, and
\* that state is the number of calls away from the allocated one: each
\* call drew exactly once, whichever quantizer it returned.
C5_Lockstep ==
    pc = "done"
    => /\ ret = peer_ret
       /\ q_list.well = peer.well
       /\ q_list.well = ncalls

\* both stores returned the high quantizer, after low ones
C5_Witness ==
    /\ pc = "done"
    /\ ret.call = "choose"
    /\ ret.kind = "quantizer"
    /\ ret.slot % 2 = 1
    /\ peer_ret.slot % 2 = 1
    /\ ret.draw = UINT32_MAX

\* C6: from alloc_conditional_quantizer_list to the return of
\* generate_codebooks the store's generator state is the allocated one.
C6_GenerationLeavesWell ==
    q_list # Null
    => q_list.well = alloc_conditional_quantizer_list(info.columns).well

\* generate_codebooks has returned with every column stored
C6_Witness ==
    /\ pc = "done"
    /\ \A c \in 0..(info.columns - 1) : Closed(c)
    /\ Len(InputAlphabet(1)) = 2

C8_StoredRatiosInUnitInterval ==
    \A c \in Opened :
        \A i \in 0..(Len(InputAlphabet(c)) - 1) : InUnitInterval(StoredRatio(c, i))

\* C9: when 2^H is an integer that fits the word, so that find_states
\* yields low = high, the ratio it yields is exactly 1.
C9_RatioOneWhenLowEqualsHigh ==
    (/\ states # None
     /\ Ceil(Pow2(entropy)) <= UINT32_MAX
     /\ states.low = states.high)
    => IsOne(states.ratio)

\* n <= x and x <= n for an integer n and a linear-domain value x
IntLeqReal(n, x) == n <= x.int

RealLeqInt(x, n) == x.int < n \/ (x.int = n /\ x.frac = 0)

\* low = floor(x) and high = ceil(x), with their consequences
FloorCeil(x, low, high) ==
    /\ IntLeqReal(low, x) /\ ~IntLeqReal(low + 1, x)
    /\ RealLeqInt(x, high) /\ ~RealLeqInt(x, high - 1)
    /\ low >= 1
    /\ high - low \in {0, 1}

S3AfterColumn0 ==
    /\ info.lines = S3Corpus
    /\ comp = Frac(1, 2)
    /\ pc = "loop"

\* both quantizers designed for column 0 are in the store under context 0
Column0Stored ==
    /\ InputAlphabet(0) = <<0>>
    /\ Slot(0, 0) = locals.q_lo
    /\ Slot(0, 1) = locals.q_hi
    /\ StoredRatio(0, 0) = locals.ratio

\* C11, as claimed: in scenario S3 (column-0 entropy 3/2 bits, comp = 1/2)
\* column 0 is allocated low = 2 and high = 3 states, and both quantizers
\* are stored under context 0.
C11_S3LowTwoHighThree ==
    S3AfterColumn0
    => /\ get_entropy(get_cond_pmf(in_pmfs, 0, 0)) = Frac(3, 2)
       /\ locals.lo = 2
       /\ locals.hi = 3
       /\ Column0Stored

\* C11, amended: in scenario S3 the target is 3/4 bit, so column 0 is
\* allocated low = 1 and high = 2 states with ratio
\* (3/4 - log2 2)/(log2 1 - log2 2) = 1/4, and both quantizers are stored
\* under context 0.
C11_S3LowOneHighTwo ==
    S3AfterColumn0
    => /\ get_entropy(get_cond_pmf(in_pmfs, 0, 0)) = Frac(3, 2)
       /\ entropy.seg = 1 /\ 4 * entropy.pos = 3 * Resolution
       /\ locals.lo = 1
       /\ locals.hi = 2
       /\ locals.ratio = Frac(1, 4)
       /\ Column0Stored

\* scenario S3 has gone through column 0, the low quantizer having one
\* output symbol and the high one two
C11_Witness ==
    /\ S3AfterColumn0
    /\ Len(Slot(0, 0).output_alphabet) = 1
    /\ Len(Slot(0, 1).output_alphabet) = 2
    /\ Slot(0, 0).ratio = Frac(1, 4)
    /\ Slot(0, 1).ratio = Frac(3, 4)

\* the training lines, numbered from 1
LineNumbers == 1..Len(info.lines)

RECURSIVE TotalCount(_)
TotalCount(pmfs) == IF pmfs = <<>> THEN 0 ELSE SumSeq(Head(pmfs)) + TotalCount(Tail(pmfs))

\* C12: after the counting loop of calculate_statistics, the column-0 PMF
\* counts at t the lines with L[0] = t, the PMF of (c, s), c >= 1, counts
\* at t the lines with L[c-1] = s and L[c] = t, and all counts together
\* are one per line and column.
C12_CountsAreLineCounts ==
    pc = "counted"
    => /\ \A t \in Symbols :
            At(get_cond_pmf(in_pmfs, 0, 0), t)
              = Cardinality({i \in LineNumbers : At(info.lines[i], 0) = t})
       /\ \A c \in 1..(info.columns - 1) : \A s \in Symbols, t \in Symbols :
            At(get_cond_pmf(in_pmfs, c, s), t)
              = Cardinality({i \in LineNumbers :
                                At(info.lines[i], c - 1) = s /\ At(info.lines[i], c) = t})
       /\ TotalCount(in_pmfs.pmfs) = Len(info.lines) * info.columns

\* three lines of three columns counted, two of them sharing a context and
\* a symbol in column 1, the third in another context
C12_Witness ==
    /\ pc = "counted"
    /\ info.columns = 3
    /\ Len(info.lines) = 3
    /\ At(get_cond_pmf(in_pmfs, 1, 0), 1) = 2
    /\ At(get_cond_pmf(in_pmfs, 1, 1), 0) = 1
    /\ At(get_cond_pmf(in_pmfs, 2, 1), 1) = 1

RECURSIVE RatSumSeq(_)
RatSumSeq(a) == IF a = <<>> THEN Zero ELSE RatAdd(Head(a), RatSumSeq(Tail(a)))

Marginal(c, t) == At(At(in_pmfs.marginal_pmfs, c), t)

\* C13: calculate_statistics sets marginal[0] to the column-0 PMF and, for
\* c >= 1, marginal[c](t) to the sum over the symbols s of
\* marginal[c-1](s) * cond_pmf(c, s)(t).
C13_MarginalsChain ==
    pc = "counted"
    => /\ Len(in_pmfs.marginal_pmfs) = info.columns
       /\ \A t \in Symbols :
            Marginal(0, t) = get_probability(get_cond_pmf(in_pmfs, 0, 0), t)
       /\ \A c \in 1..(info.columns - 1) : \A t \in Symbols :
            Marginal(c, t)
              = RatSumSeq([s \in 1..AlphabetSize |->
                              RatMul(Marginal(c - 1, s - 1),
                                     get_probability(get_cond_pmf(in_pmfs, c, s - 1), t))])

\* marginals computed for three columns, column 1's being a weighted sum
\* of two different conditional PMFs
C13_Witness ==
    /\ pc = "counted"
    /\ info.columns = 3
    /\ Marginal(0, 0) = Frac(2, 3)
    /\ get_probability(get_cond_pmf(in_pmfs, 1, 0), 0) = Frac(1, 2)
    /\ get_probability(get_cond_pmf(in_pmfs, 1, 1), 0) = Zero
    /\ Marginal(1, 0) = Frac(1, 3)
    /\ Marginal(2, 1) = Frac(2, 3)

\* C14: in a store allocated for C >= 1 columns over A symbols there are
\* 1 + A*(C-1) PMFs, get_cond_pmf(list, c, s) reads one of them, column 0
\* reads the first whatever s, and different (c, s), (c', s') with
\* c, c' >= 1 read different ones.
C14_SlotsInsideAndDistinct ==
    (pc = "allocated" /\ info.columns >= 1)
    => LET A == Len(info.alphabet)
           Pairs == (1..(info.columns - 1)) \X Range(info.alphabet)
       IN  /\ Len(in_pmfs.pmfs) = 1 + A * (info.columns - 1)
           /\ ret.call = "get_cond_pmf"
              => /\ ret.kind = "pmf"
                 /\ ret.column = 0 => ret.slot = 0
           /\ \A x \in Pairs : \A y \in Pairs :
                x # y => get_cond_pmf_slot(in_pmfs, x[1], x[2])
                           # get_cond_pmf_slot(in_pmfs, y[1], y[2])

\* C15: with no training line or no column the PMF store is never sized.
C15_EmptyCorpusNotSized ==
    (info.columns = 0 \/ info.lines = <<>>) => in_pmfs = Null

\* the size of the quantizers' alphabet, as write_codebook takes it
QuantizerSize == Len(Slot(0, 0).q)

\* block jj of a line of blocks of `size` bytes
Block(line, jj, size) == SubSeq(line, jj * size + 1, (jj + 1) * size)

\* the low and the high quantizer stored under context symbol s of column c
LowOf(c, s) == Slot(c, 2 * get_symbol_index(InputAlphabet(c), s))

HighOf(c, s) == Slot(c, 2 * get_symbol_index(InputAlphabet(c), s) + 1)

\* C16: in the file written, line 4 is column 0's low quantizer and line 5
\* its high quantizer, and of the two lines of a column c >= 1 the first
\* holds in block s the low quantizer of context symbol s and the second
\* the high one, every entry being q[i] + 33.
C16_LinesAlternateLowHigh ==
    file # Null
    => /\ file[4] = q_to_line(Slot(0, 0).q)
       /\ file[5] = q_to_line(Slot(0, 1).q)
       /\ \A c \in 1..(q_list.columns - 1) : \A s \in Range(InputAlphabet(c)) :
            /\ Block(file[4 + 2 * c], s, QuantizerSize) = q_to_line(LowOf(c, s).q)
            /\ Block(file[5 + 2 * c], s, QuantizerSize) = q_to_line(HighOf(c, s).q)

\* COPY_Q_FROM_LINE: q[i] = line[i] - 33
q_from_line(line) == [k \in 1..Len(line) |-> line[k] - ByteOffset]

\* the ratio of column c's first context in hundredths, rounded down
Hundredths(c) == (StoredRatio(c, 0).num * RatioScale) \div StoredRatio(c, 0).den

\* C17: the store written with write_codebook and read back with
\* read_codebook has, for every column and every context with quantizers,
\* low and high maps equal to the stored ones (bytes decoded as b - 33),
\* and for every column the stored ratio in hundredths.
C17_CodebookRoundTrip ==
    cb_list # Null
    => /\ cb_list.columns = q_list.columns
       /\ \A c \in 0..(q_list.columns - 1) :
            /\ StoredRatio(c, 0).kind = "num" => cb_list.ratio[c + 1] = Hundredths(c)
            /\ \A s \in Range(InputAlphabet(c)) :
                 /\ q_from_line(cb_list.low[c + 1][s + 1].quantizer) = LowOf(c, s).q
                 /\ q_from_line(cb_list.high[c + 1][s + 1].quantizer) = HighOf(c, s).q

\* main has left its argument loop for good
CliStarted == pc \in {"encode", "decode"}

\* C18: encode or decode is started only when the loop took exactly two
\* arguments as untagged (an option's value is consumed with its option and
\* is not one of them), the first being input_name and the second
\* output_name; once a third untagged argument is met, or the arguments are
\* exhausted with fewer than two, main has exited with status 1 and has
\* not started encode or decode.
C18_TwoFileNamesOrUsage ==
    cli # Null
    => /\ CliStarted
          => /\ Len(cli.untagged) = 2
             /\ cli.input_name = cli.untagged[1]
             /\ cli.output_name = cli.untagged[2]
       /\ Len(cli.untagged) >= 3 => pc = "exit1"
       /\ (pc # "main" /\ cli.i >= cli.argc /\ Len(cli.untagged) < 2) => pc = "exit1"

\* encode or decode started after an option and two file names
C18_Witness ==
    /\ cli # Null
    /\ CliStarted
    /\ cli.last # None
    /\ Len(cli.untagged) = 2
    /\ cli.input_name < cli.output_name

\* C19: after a -d whose argument starts with a letter other than M, L and
\* A, the distortion measure is MSE, whatever options came before.
C19_UnsupportedDistortionIsMSE ==
    (cli # Null /\ cli.last # None /\ cli.last.opt = "d"
       /\ cli.last.first \in FirstChars \ {"M", "L", "A", "-"})
    => cli.opts.distortion = "DISTORTION_MSE"

\* generate_codebooks has finished column 0 and not yet opened column 1
AfterColumn0 == q_list # Null /\ pc = "loop" /\ column = 1

\* the union of the output alphabets of column 0's low and high quantizers
Column0Outputs ==
    Range(Slot(0, 0).output_alphabet) \cup Range(Slot(0, 1).output_alphabet)

\* C20 as stated: after column 0, q_prev_output_union is the union of the
\* output alphabets of column 0's low and high quantizers.
C20_PrevUnionIsOutputUnion ==
    AfterColumn0 => Range(q_prev_output_union) = Column0Outputs

\* C20: after column 0, q_prev_output_union is the alphabet column 0 was
\* initialised with, the single symbol 0 that stands for "no previous
\* symbol"; the union of the output alphabets of column 0's low and high
\* quantizers is q_output_union once column 1 has been opened.
C20_PrevUnionIsColumn0Contexts ==
    /\ AfterColumn0
       => /\ q_prev_output_union = alloc_alphabet(1)
          /\ q_prev_output_union = InputAlphabet(0)
    /\ (q_list # Null /\ pc = "design" /\ column = 1)
       => Range(q_output_union) = Column0Outputs

\* column 0 is done and one of its quantizers emits a symbol other than 0
C20_Witness == AfterColumn0 /\ Column0Outputs # {0}

\* w_j(k): the sum over x of prev_qpmf[x][j] * cond_pmf(column-1, x)(k) *
\* marginal[column-2](x)
ContextWeight(jj, k) ==
    DSumSeq([x \in 1..Len(locals.prev_qpmf_list) |->
                DMul(DMul(locals.prev_qpmf_list[x][jj + 1],
                          get_probability(get_cond_pmf(in_pmfs, column - 1, x - 1), k)),
                     in_pmfs.marginal_pmfs[column - 1][x])])

\* c_j(k, q): the contribution of the j-th quantizer pair of column-1 alone
PairContribution(jj, k, q) ==
    DAdd(IF Slot(column - 1, 2 * jj).q[k + 1] = q
         THEN Slot(column - 1, 2 * jj).ratio ELSE Zero,
         IF Slot(column - 1, 2 * jj + 1).q[k + 1] = q
         THEN Slot(column - 1, 2 * jj + 1).ratio ELSE Zero)

\* the sum over the previous contexts j of w_j(k) * c_j(k, q)
ChainedCell(k, q) ==
    DSumSeq([n \in 1..Len(q_prev_output_union) |->
                DMul(ContextWeight(n - 1, k), PairContribution(n - 1, k, q))])

\* C21: for column >= 2, every source symbol k and candidate output q, the
\* value compute_qpmf_list holds for (k, q) before the row is renormalized
\* is the sum over the previous contexts j of w_j(k) * c_j(k, q) (cells
\* computed from a ratio that is not a number are left out).
C21_QpmfIsSumOverContexts ==
    pc = "qpmf_done"
    => \A k \in 1..Len(in_pmfs.alphabet) : \A idx \in 1..Len(q_output_union) :
         (/\ locals.qpmf_list.raw[k][idx].kind = "num"
          /\ ChainedCell(k - 1, q_output_union[idx]).kind = "num")
         => locals.qpmf_list.raw[k][idx] = ChainedCell(k - 1, q_output_union[idx])

\* the columns of the store
StoreColumnsOf == 0..(q_list.columns - 1)

\* column c of the store is written by this step
Written(c) ==
    \/ q_list'.q[c + 1] # q_list.q[c + 1]
    \/ q_list'.ratio[c + 1] # q_list.ratio[c + 1]
    \/ q_list'.input_alphabets[c + 1] # q_list.input_alphabets[c + 1]

\* C22: generate_codebooks opens every column of the store exactly once, in
\* the order 0, 1, ..., C-1; the step of iteration c that reads quantizers
\* (lines 473-476 and 345-346: the slots 0 .. 2*|q_prev_output_union|-1 of
\* column c-1) finds exactly the 2*|input_alphabet[c-1]| slots of column
\* c-1, each holding a quantizer; every write goes to the column of the
\* running iteration, so no column below it is written again; an iteration
\* ends with its column full, and the return with every column opened.
C22_ColumnByColumn ==
    [][q_list # Null
       => /\ \A c \in StoreColumnsOf :
               /\ (c \in Opened /\ Written(c))
                  => /\ c = column
                     /\ InputAlphabet(c)' = InputAlphabet(c)
                     /\ Len(q_list'.q[c + 1]) = Len(q_list.q[c + 1])
               /\ (c \notin Opened /\ Written(c))
                  => /\ c = column
                     /\ c \in Opened'
                     /\ \A b \in 0..(c - 1) : Closed(b)
                     /\ \A b \in (c + 1)..(q_list.columns - 1) : b \notin Opened'
          /\ (pc = "loop" /\ pc' = "design")
             => /\ column >= 1
                /\ Closed(column - 1)
                /\ 2 * Len(q_prev_output_union) = Cardinality(Slots(column - 1))
                /\ Cardinality(Slots(column - 1)) = 2 * Len(InputAlphabet(column - 1))
          /\ (pc = "design" /\ pc' = "loop") => Closed(column)
          /\ pc' = "done" => Opened' = StoreColumnsOf /\ \A c \in StoreColumnsOf : Closed(c)]_vars

\* the second context of column 2 is being designed, columns 0 and 1 full
C22_Witness ==
    /\ pc = "design"
    /\ column = 2
    /\ j = 1
    /\ Len(InputAlphabet(1)) = 2
    /\ Len(InputAlphabet(2)) = 2
    /\ Closed(0) /\ Closed(1)
    /\ Slot(2, 0) # Null /\ Slot(2, 2) = Null

\* how many times a block was passed to free
TimesFreed(block) == Cardinality({n \in 1..Len(heap.freed) : heap.freed[n] = block})

\* free_cond_quantizer_list is running or has ended
FreeingQuantizers ==
    \/ pc \in {"free_columns", "free_slots", "freed"}
    \/ (pc \in {"free_crashed", "free_undefined"} /\ "j" \in DOMAIN locals)

\* C23: free_cond_quantizer_list, on a store produced by generate_codebooks,
\* never indexes a column >= list->columns, does not end in a crash, and
\* when it returns has freed exactly once every stored quantizer of every
\* opened column, the column's input alphabet, its slot array and its ratio
\* array.
C23_FreesEveryColumnOnce ==
    FreeingQuantizers
    => /\ heap.undefined = <<>>
       /\ pc \notin {"free_crashed", "free_undefined"}
       /\ pc \in {"free_slots"} => locals.i < q_list.columns
       /\ pc = "freed"
          => \A c \in Opened :
               /\ \A k \in Slots(c) : TimesFreed(HeapBlock("quantizer", c, k)) = 1
               /\ TimesFreed(HeapBlock("alphabet", c, 0)) = 1
               /\ TimesFreed(HeapBlock("q", c, 0)) = 1
               /\ TimesFreed(HeapBlock("ratio", c, 0)) = 1

\* free_conditional_pmf_list is running or has ended
FreeingPmfs ==
    \/ pc \in {"free_pmfs", "pmfs_freed"}
    \/ (pc = "free_crashed" /\ "count" \in DOMAIN locals)

\* the slots of the PMFs alloc_conditional_pmf_list allocated
PmfSlots == 0..(Len(in_pmfs.pmfs) - 1)

\* C24: free_conditional_pmf_list frees no PMF twice, reads no field of the
\* list after freeing the list, and when it returns has freed each of the
\* 1 + A*(C-1) PMFs exactly once.
C24_FreesEveryPmfOnce ==
    FreeingPmfs
    => /\ \A k \in PmfSlots : TimesFreed(HeapBlock("pmf", 0, k)) <= 1
       /\ heap.undefined = <<>>
       /\ pc = "pmfs_freed" => \A k \in PmfSlots : TimesFreed(HeapBlock("pmf", 0, k)) = 1

\* the options that read argv[i+1]
TakesValue == ValueOptions \cup {"d"}

\* C25: the argument loop never reads argv[k] with k >= argc: an option
\* that takes a value is processed only when an argument follows it, so
\* the loop never dies on a null argument and never steps past argc.
C25_ValueOptionsHaveAnArgument ==
    cli # Null
    => /\ pc # "crash"
       /\ (cli.last # None /\ cli.last.opt \in TakesValue)
          => /\ cli.last.first # "null"
             /\ cli.i <= cli.argc

=============================================================================
